---- MODULE Spec2Model ----
(***************************************************************************)
(* Leaf-area measurement pipeline of src/app.py: segmentar_folha and       *)
(* detectar_qrcode_e_calcular_escala, run by one or more concurrent        *)
(* requests of the /processar route.                                       *)
(*                                                                         *)
(* Number representation.  Python floats are carried exactly:              *)
(*   - a detector coordinate is an integer count of 1/SubPix pixels;       *)
(*   - a Euclidean length is carried as its square (an integer), so the    *)
(*     scale 3.6 / sqrt(n) is the record [k |-> "fin", pix2 |-> n];        *)
(*   - cv2.contourArea is carried doubled (area2), an integer;             *)
(*   - an area in cm2 is the fraction num / den, or "inf" / "nan" as IEEE  *)
(*     arithmetic produces them.                                           *)
(* Python's None is the record None; every optional value is a record, so  *)
(* that it compares with None.                                             *)
(***************************************************************************)
EXTENDS Integers, Sequences, FiniteSets, TLC

----------------------------------------------------------------------------
(* Bounds of the model *)

\* requests in flight at once under ConcSpec
NumInvocations == 2
\* image width and height in pixels
W == 12
H == 4
\* detector coordinates are multiples of 1/SubPix pixel
SubPix == 2
\* largest offset of the marker's first corner, in 1/SubPix pixels
MaxOff == 1
\* largest side of the marker, in 1/SubPix pixels
MaxSide == 6

----------------------------------------------------------------------------
(* Program constants *)

\* tamanho_real_cm = 3.6, in tenths of a centimetre
TamanhoRealCmDecimos == 36
\* kernel = np.ones((5, 5), np.uint8)
KernelSize == 5
\* thickness argument of cv2.drawContours
Espessura == 2
\* digits of the {area_cm2:.2f} format
CasasDecimais == 2

lower_green == <<35, 55, 50>>
upper_green == <<90, 255, 255>>

None == [k |-> "None"]

ERRO_QR == [k |-> "str", s |-> "QR Code nao detectado. Nao foi possivel calcular a escala."]
ERRO_FOLHA == [k |-> "str", s |-> "Nenhuma folha foi detectada. Tente ajustar os limites de cor."]

Invocations == 1..NumInvocations

----------------------------------------------------------------------------
(* Arithmetic helpers *)

Abs(n) == IF n < 0 THEN -n ELSE n
Max2(a, b) == IF a >= b THEN a ELSE b
Min2(a, b) == IF a <= b THEN a ELSE b
Max3(a, b, c) == Max2(a, Max2(b, c))
Min3(a, b, c) == Min2(a, Min2(b, c))
\* cvRound of a / b for a >= 0, b > 0: the nearest integer, a tie going to the
\* even one
RoundDiv(a, b) ==
    LET q == a \div b
        r == a % b
    IN IF 2 * r > b \/ (2 * r = b /\ q % 2 = 1) THEN q + 1 ELSE q
Pow10(n) == IF n = 0 THEN 1 ELSE IF n = 1 THEN 10 ELSE 100

----------------------------------------------------------------------------
(* Raster images *)

Grid == (0..(W - 1)) \X (0..(H - 1))

\* BGR samples and what they convert to in HSV: white (0, 0, 255), green
\* (60, 255, 255), cyan (90, 255, 255), pale green (60, 55, 255), olive
\* (34, 255, 113) and lime (35, 255, 127).  The last two sit on either side of
\* the lower hue bound; their exact hues are 34.51 and 34.49 degrees halved,
\* and the conversion's fixed-point arithmetic takes them to 34 and 35.
Branco == <<255, 255, 255>>
Verde == <<0, 255, 0>>
Ciano == <<255, 255, 0>>
VerdePalido == <<200, 255, 200>>
Oliva == <<0, 113, 96>>
Lima == <<0, 127, 108>>

\* fixed-point scale of the 8-bit conversion and its reciprocal tables:
\* sdiv_table[i] = cvRound((255 << hsv_shift) / i) and
\* hdiv_table180[i] = cvRound((180 << hsv_shift) / (6 * i)), both 0 at i = 0
hsv_shift == 12
sdiv_table(i) == IF i = 0 THEN 0 ELSE RoundDiv(255 * 2^hsv_shift, i)
hdiv_table180(i) == IF i = 0 THEN 0 ELSE RoundDiv(180 * 2^hsv_shift, 6 * i)

\* cv2.cvtColor(imagem, cv2.COLOR_BGR2HSV) on one 8-bit pixel: H in 0..179,
\* S and V in 0..255.  Each quotient is a product with a table entry, rounded
\* by adding half a unit and shifting right (a floor, also of negatives); a
\* negative hue wraps by 180 after the rounding.
BGR2HSV(c) ==
    LET b == c[1]
        g == c[2]
        r == c[3]
        v == Max3(b, g, r)
        diff == v - Min3(b, g, r)
        half == 2^(hsv_shift - 1)
        s == (diff * sdiv_table(v) + half) \div 2^hsv_shift
        \* hue in sixths of a turn times diff
        h0 == IF v = r THEN g - b
              ELSE IF v = g THEN b - r + 2 * diff
              ELSE r - g + 4 * diff
        h1 == (h0 * hdiv_table180(diff) + half) \div 2^hsv_shift
        h == IF h1 < 0 THEN h1 + 180 ELSE h1
    IN <<h, s, v>>

\* cv2.inRange on one pixel: every channel within the inclusive bounds
InRange(hsv, lo, hi) == \A k \in 1..3 : lo[k] <= hsv[k] /\ hsv[k] <= hi[k]

\* the mask cv2.inRange returns, as the set of its 255-valued pixels
InRangeMask(pixels) ==
    {p \in Grid : InRange(BGR2HSV(pixels[p]), lower_green, upper_green)}

\* the pixels under the kernel anchored (at its centre) on p, inside the image
Window(p) ==
    LET rad == KernelSize \div 2
    IN {q \in ((p[1] - rad)..(p[1] + rad)) \X ((p[2] - rad)..(p[2] + rad)) :
          q[1] >= 0 /\ q[1] < W /\ q[2] >= 0 /\ q[2] < H}

\* cv2.dilate / cv2.erode with the default border, which never decides a pixel
Dilate(m) == UNION {Window(p) : p \in m}
Erode(m) == {p \in m : Window(p) \subseteq m}
\* cv2.morphologyEx(mascara, cv2.MORPH_CLOSE, kernel)
MorphClose(m) == Erode(Dilate(m))
\* cv2.morphologyEx(mascara, cv2.MORPH_OPEN, kernel)
MorphOpen(m) == Dilate(Erode(m))

\* Segmentar with the mask inverted before the clean-up
SegmentarInvertida(pixels) == MorphOpen(MorphClose(Grid \ InRangeMask(pixels)))

\* the mask of lines 57-69 of segmentar_folha for an image
Segmentar(pixels) == MorphOpen(MorphClose(InRangeMask(pixels)))

----------------------------------------------------------------------------
(* Contours *)

\* the pixels next to p: its 4 edge neighbours, and with conn = 8 the 4
\* diagonal ones too
Nbrs(p, conn) ==
    LET x == p[1]
        y == p[2]
        n4 == {<<x + 1, y>>, <<x - 1, y>>, <<x, y + 1>>, <<x, y - 1>>}
    IN IF conn = 4 THEN n4
       ELSE n4 \cup {<<x + 1, y + 1>>, <<x - 1, y - 1>>, <<x + 1, y - 1>>, <<x - 1, y + 1>>}

\* the pixels of allowed that region reaches through neighbours, frontier
\* being the pixels of region not yet expanded
RECURSIVE Grow(_, _, _, _)
Grow(frontier, region, allowed, conn) ==
    LET next == ((UNION {Nbrs(p, conn) : p \in frontier}) \cap allowed) \ region
    IN IF next = {} THEN region ELSE Grow(next, region \cup next, allowed, conn)

\* the 8-connected components of a mask
RECURSIVE Components(_)
Components(m) ==
    IF m = {} THEN {}
    ELSE LET p == CHOOSE q \in m : TRUE
             c == Grow({p}, {p}, m, 8)
         IN {c} \cup Components(m \ c)

OnBorder(p) == p[1] = 0 \/ p[1] = W - 1 \/ p[2] = 0 \/ p[2] = H - 1

\* what the outer border of component c encloses: c and its holes
Fill(c) ==
    LET bg == Grid \ c
        seeds == {p \in bg : OnBorder(p)}
    IN Grid \ Grow(seeds, seeds, bg, 4)

\* cv2.findContours(mascara, cv2.RETR_EXTERNAL, cv2.CHAIN_APPROX_SIMPLE): one
\* contour per outermost component.  A contour is carried as the set of pixels
\* its polygon encloses, border included.
ExternalContours(m) ==
    LET cs == Components(m)
    IN {Fill(c) : c \in {c \in cs : ~ \E d \in cs \ {c} : c \subseteq Fill(d)}}

\* twice cv2.contourArea(contour): the polygon runs through the centres of the
\* border pixels, so it covers each 2x2 cell with four pixels inside wholly
\* and each with three (a diagonal step) by half.
ContourArea2(f) ==
    LET cell(p) == {p, <<p[1] + 1, p[2]>>, <<p[1], p[2] + 1>>, <<p[1] + 1, p[2] + 1>>}
        n(p) == Cardinality(cell(p) \cap f)
    IN 2 * Cardinality({p \in f : n(p) = 4})
       + Cardinality({p \in Grid : n(p) = 3})

\* the orders in which findContours may list a set of contours
Orders(S) ==
    LET n == Cardinality(S)
    IN {s \in [1..n -> S] : \A a, b \in 1..n : a # b => s[a] # s[b]}

----------------------------------------------------------------------------
(* detectar_qrcode_e_calcular_escala *)

\* what detector.detectAndDecode hands back as vertices: None, an empty array,
\* or an array of shape (1, 4, 2)
EmptyArr == [k |-> "arr", v |-> <<>>]
Arr(quad) == [k |-> "arr", v |-> <<quad>>]

\* one coordinate under vertices.astype(int): truncation toward zero
AstypeInt(c) == IF c >= 0 THEN c \div SubPix ELSE -((-c) \div SubPix)

AstypeIntQuad(quad) == [j \in 1..4 |-> <<AstypeInt(quad[j][1]), AstypeInt(quad[j][2])>>]

\* the square of np.linalg.norm(a - b)
Norm2(a, b) == (a[1] - b[1]) * (a[1] - b[1]) + (a[2] - b[2]) * (a[2] - b[2])

\* tamanho_real_cm / max(largura_pixels, altura_pixels); the numpy division
\* by 0.0 yields inf.  max of the lengths is the max of their squares.
Dividir(maior2) == IF maior2 = 0 THEN [k |-> "inf"] ELSE [k |-> "fin", pix2 |-> maior2]

\* lines 25-31: the scale from the quadrilateral vertices[0]
EscalaDe(quad) ==
    LET v == AstypeIntQuad(quad)
        largura2 == Norm2(v[1], v[2])
        altura2 == Norm2(v[3], v[4])
    IN Dividir(Max2(largura2, altura2))

\* DetectarEscala falling back to a scale of 3.6 cm per pixel without a marker
DetectarEscalaPadrao(vertices) ==
    IF vertices # None /\ Len(vertices.v) > 0
    THEN EscalaDe(vertices.v[1])
    ELSE [k |-> "fin", pix2 |-> 1]

\* lines 21-36: the value the function returns
DetectarEscala(vertices) ==
    IF vertices # None /\ Len(vertices.v) > 0
    THEN EscalaDe(vertices.v[1])
    ELSE None

----------------------------------------------------------------------------
(* segmentar_folha, lines 78-89 *)

\* MaiorContorno taking the first contour of the list
PrimeiroContorno(cs) == cs[1]

\* max(contornos, key=cv2.contourArea): the first contour of the list that no
\* other exceeds
MaiorContorno(cs) ==
    LET best == CHOOSE a \in 1..Len(cs) :
                    /\ \A b \in 1..Len(cs) : ContourArea2(cs[b]) <= ContourArea2(cs[a])
                    /\ \A b \in 1..(a - 1) : ContourArea2(cs[b]) < ContourArea2(cs[a])
    IN cs[best]

\* AreaCm2 dividing by the squared scale instead of multiplying
AreaCm2Dividida(area2, escala) ==
    IF escala.k = "inf"
    THEN [k |-> "fin", num |-> 0, den |-> 1]
    ELSE [k |-> "fin",
          num |-> area2 * 100 * escala.pix2,
          den |-> 2 * TamanhoRealCmDecimos * TamanhoRealCmDecimos]

\* area_pixels * (escala_qr ** 2), area_pixels given doubled
AreaCm2(area2, escala) ==
    IF escala.k = "inf"
    THEN (IF area2 = 0 THEN [k |-> "nan"] ELSE [k |-> "inf"])
    ELSE [k |-> "fin",
          num |-> area2 * TamanhoRealCmDecimos * TamanhoRealCmDecimos,
          den |-> 2 * 100 * escala.pix2]

\* the texts f"Area da folha: {area_cm2:.2f} cm2" can be: the value in
\* hundredths, rounded to nearest; on an exact tie the float's rounding error
\* decides between the two neighbours
Texto(area) ==
    IF area.k # "fin" THEN {[k |-> "txt", lit |-> area.k]}
    ELSE LET sc == area.num * Pow10(CasasDecimais)
             q == sc \div area.den
             r == sc % area.den
         IN {[k |-> "txt", centi |-> c] :
               c \in {x \in {q, q + 1} : (x = q /\ 2 * r <= area.den)
                                         \/ (x = q + 1 /\ 2 * r >= area.den)}}

\* Anotar without the drawContours call
AnotarSemContorno(img, contorno, texto) ==
    [img EXCEPT !.anotacoes =
        img.anotacoes \o
        << [op |-> "putText", texto |-> texto, org |-> <<50, 50>>,
            cor |-> <<255, 0, 0>>, espessura |-> Espessura] >>]

\* cv2.drawContours(imagem, [maior_contorno], -1, (0, 255, 0), 2) followed by
\* cv2.putText(imagem, texto, (50, 50), ...): the image after both calls
Anotar(img, contorno, texto) ==
    [img EXCEPT !.anotacoes =
        img.anotacoes \o
        << [op |-> "drawContours", contorno |-> contorno, cor |-> <<0, 255, 0>>,
            espessura |-> Espessura],
           [op |-> "putText", texto |-> texto, org |-> <<50, 50>>,
            cor |-> <<255, 0, 0>>, espessura |-> Espessura] >>]

\* the object the image argument refers to
Ref(i) == [k |-> "ref", id |-> i]

\* the three return statements of segmentar_folha
RetornoSemQr(i) == [img |-> None, area |-> None, erro |-> ERRO_QR]
\* RetornoSemFolha handing the image back with the failure
RetornoSemFolhaComImagem(i) == [img |-> Ref(i), area |-> None, erro |-> ERRO_FOLHA]
RetornoSemFolha(i) == [img |-> None, area |-> None, erro |-> ERRO_FOLHA]
RetornoSucesso(i, area) == [img |-> Ref(i), area |-> area, erro |-> None]

----------------------------------------------------------------------------
(* Inputs *)

\* rectangles of one colour painted over the background, later ones on top
Blobs ==
    { [pri |-> 1, x0 |-> 0, x1 |-> 2, y0 |-> 0, y1 |-> 2, cor |-> Verde],
      [pri |-> 2, x0 |-> W - 4, x1 |-> W - 1, y0 |-> 0, y1 |-> H - 1, cor |-> Ciano],
      [pri |-> 3, x0 |-> W - 4, x1 |-> W - 3, y0 |-> 0, y1 |-> 1, cor |-> Oliva],
      [pri |-> 4, x0 |-> 5, x1 |-> 5, y0 |-> 1, y1 |-> 1, cor |-> Lima],
      [pri |-> 5, x0 |-> W - 3, x1 |-> W - 1, y0 |-> 0, y1 |-> 2, cor |-> VerdePalido] }

Fundos == {Branco, Verde}

InBlob(p, b) == b.x0 <= p[1] /\ p[1] <= b.x1 /\ b.y0 <= p[2] /\ p[2] <= b.y1

Pixels(fundo, blobs) ==
    [p \in Grid |->
        LET over == {b \in blobs : InBlob(p, b)}
        IN IF over = {} THEN fundo
           ELSE (CHOOSE b \in over : \A c \in over : c.pri <= b.pri).cor]

Imagens ==
    {Pixels(f, bs) : f \in Fundos, bs \in {x \in SUBSET Blobs : Cardinality(x) <= 2}}

\* InRangeMask, Segmentar and ExternalContours tabulated over the images above, so that
\* each is computed once
InRangeTab == [px \in Imagens |-> InRangeMask(px)]
MascaraTab == [px \in Imagens |-> Segmentar(px)]
Mascaras == {MascaraTab[px] : px \in Imagens}
ContornosTab == [m \in Mascaras |-> ExternalContours(m)]
Mascara(pixels) == MascaraTab[pixels]
FindContours(m) == ContornosTab[m]

\* corners 0..3 of a marker, in 1/SubPix pixels: the side from corner 0 to 1
\* is (a, t), the side from corner 3 to 2 is (b, 0)
Quad(off, a, b, t) ==
    << <<off, off>>, <<off + a, off + t>>, <<off + b, off + a>>, <<off, off + a>> >>

Quads ==
    {Quad(off, a, b, t) : off \in 0..MaxOff, a \in 0..MaxSide, b \in 0..MaxSide,
                          t \in {0, SubPix}}

Deteccoes == {None, EmptyArr} \cup {Arr(q) : q \in Quads}

Imagem(pixels) == [pixels |-> pixels, anotacoes |-> <<>>]

\* what one request brings: the decoded image and what the detector sees in it
Entradas == {[img |-> Imagem(px), vertices |-> d] : px \in Imagens, d \in Deteccoes}

\* the smaller set the concurrent requests draw from
EntradasConc ==
    {[img |-> Imagem(Pixels(Branco, bs)), vertices |-> d] :
        bs \in {{}, {b \in Blobs : b.pri <= 2}},
        d \in {None, Arr(Quad(0, SubPix, SubPix, 0)), Arr(Quad(1, 2 * SubPix, SubPix, 0))}}

----------------------------------------------------------------------------
(* State *)

VARIABLES
    pc,             \* where each invocation of segmentar_folha stands
    entrada,        \* the request each invocation was called with (never written)
    heap,           \* the image object each invocation's argument refers to
    escala_qr,      \* local of segmentar_folha
    mascara,        \* local of segmentar_folha
    contornos,      \* local of segmentar_folha
    maior_contorno, \* local of segmentar_folha
    area_pixels,    \* local of segmentar_folha, doubled
    ret,            \* the returned triple
    chamadas        \* the stages each invocation has run, in order

vars == <<pc, entrada, heap, escala_qr, mascara, contornos, maior_contorno,
          area_pixels, ret, chamadas>>

NoRet == [img |-> None, area |-> None, erro |-> None]

InitWith(active, entradas) ==
    /\ \E e \in [active -> entradas] :
         entrada = [i \in Invocations |-> IF i \in active THEN e[i] ELSE None]
    /\ pc = [i \in Invocations |-> IF i \in active THEN "AwaitingFiducial" ELSE "Idle"]
    /\ heap = [i \in Invocations |-> IF i \in active THEN entrada[i].img ELSE None]
    /\ escala_qr = [i \in Invocations |-> None]
    /\ mascara = [i \in Invocations |-> None]
    /\ contornos = [i \in Invocations |-> None]
    /\ maior_contorno = [i \in Invocations |-> None]
    /\ area_pixels = [i \in Invocations |-> None]
    /\ ret = [i \in Invocations |-> NoRet]
    /\ chamadas = [i \in Invocations |-> <<>>]

\* one request in flight
Init == InitWith({1}, Entradas)

\* NumInvocations requests in flight
InitConc == InitWith(Invocations, EntradasConc)

----------------------------------------------------------------------------
(* Steps of segmentar_folha *)

\* EscalaLida with the scale kept in one place for all invocations: the one
\* another invocation has established, when there is one
EscalaCompartilhada(i) ==
    IF \E j \in Invocations : j # i /\ escala_qr[j] # None
    THEN escala_qr[CHOOSE j \in Invocations : j # i /\ escala_qr[j] # None]
    ELSE escala_qr[i]

\* the scale invocation i reads at line 82: its own local
EscalaLida(i) == escala_qr[i]

\* AposFiducial without the early return
AposFiducialSemRetorno(escala) == "AwaitingSegmentation"

\* lines 53-54: where segmentar_folha goes with the scale it got
AposFiducial(escala) == IF escala = None THEN "Done" ELSE "AwaitingSegmentation"

\* lines 52-54, with the call of detectar_qrcode_e_calcular_escala
LocateFiducial(i) ==
    /\ pc[i] = "AwaitingFiducial"
    /\ LET vertices == entrada[i].vertices
           escala == DetectarEscala(vertices)
       IN /\ escala_qr' = [escala_qr EXCEPT ![i] = escala]
          /\ pc' = [pc EXCEPT ![i] = AposFiducial(escala)]
          /\ IF escala = None
             THEN /\ ret' = [ret EXCEPT ![i] = RetornoSemQr(i)]
                  /\ chamadas' = [chamadas EXCEPT ![i] = Append(@, "FiducialLocator")]
             ELSE /\ ret' = ret
                  /\ chamadas' = [chamadas EXCEPT
                                    ![i] = @ \o <<"FiducialLocator", "ScaleEstimator">>]
    /\ UNCHANGED <<entrada, heap, mascara, contornos, maior_contorno, area_pixels>>

\* lines 57-69
Segment(i) ==
    /\ pc[i] = "AwaitingSegmentation"
    /\ mascara' = [mascara EXCEPT ![i] = [k |-> "mask", fg |-> Mascara(heap[i].pixels)]]
    /\ pc' = [pc EXCEPT ![i] = "AwaitingContour"]
    /\ chamadas' = [chamadas EXCEPT ![i] = Append(@, "RegionSegmenter")]
    /\ UNCHANGED <<entrada, heap, escala_qr, contornos, maior_contorno, area_pixels, ret>>

\* lines 72-89; each local is bound once to the value the code assigns it
SelectContour(i) ==
    /\ pc[i] = "AwaitingContour"
    /\ \E cs \in Orders(FindContours(mascara[i].fg)) :
         /\ contornos' = [contornos EXCEPT ![i] = [k |-> "list", v |-> cs]]
         /\ IF Len(cs) = 0
            THEN /\ ret' = [ret EXCEPT ![i] = RetornoSemFolha(i)]
                 /\ chamadas' = [chamadas EXCEPT ![i] = Append(@, "ContourSelector")]
                 /\ UNCHANGED <<heap, maior_contorno, area_pixels>>
            ELSE \E maior \in {MaiorContorno(cs)} :
                 \E area2 \in {ContourArea2(maior)} :
                 \E area_cm2 \in {AreaCm2(area2, EscalaLida(i))} :
                 \E texto \in Texto(area_cm2) :
                    /\ maior_contorno' = [maior_contorno EXCEPT
                                            ![i] = [k |-> "cnt", px |-> maior]]
                    /\ area_pixels' = [area_pixels EXCEPT ![i] = [k |-> "num", a2 |-> area2]]
                    /\ heap' = [heap EXCEPT ![i] = Anotar(@, maior, texto)]
                    /\ ret' = [ret EXCEPT ![i] = RetornoSucesso(i, area_cm2)]
                    /\ chamadas' = [chamadas EXCEPT
                                      ![i] = @ \o <<"ContourSelector", "AreaConverter">>]
    /\ pc' = [pc EXCEPT ![i] = "Done"]
    /\ UNCHANGED <<entrada, escala_qr, mascara>>

Step(i) == LocateFiducial(i) \/ Segment(i) \/ SelectContour(i)

Next == \E i \in Invocations : LocateFiducial(i) \/ Segment(i) \/ SelectContour(i)

Spec == Init /\ [][Next]_vars

\* segmentar_folha is straight-line code over calls that return: a started
\* invocation keeps running
FairSpec == Spec /\ \A i \in Invocations : WF_vars(Step(i))

ConcSpec == InitConc /\ [][Next]_vars

----------------------------------------------------------------------------
(* Properties *)

Done(i) == pc[i] = "Done"
Sucesso(i) == Done(i) /\ ret[i].erro = None
Absent(v) == IF v = None THEN TRUE ELSE Len(v.v) = 0
Present(i) == pc[i] # "Idle" /\ ~ Absent(entrada[i].vertices)
SemPayload(r) == r.img = None /\ r.area = None
\* the detector's quadrilateral of a request whose fiducial is present
QuadDe(i) == entrada[i].vertices.v[1]
\* the squared length of the longer of sides 0-1 and 2-3 as the detector
\* reported them, in (1/SubPix pixel) squared
Lado2(q) == Max2(Norm2(q[1], q[2]), Norm2(q[3], q[4]))
\* the contours of a request's image, computed from the request alone
ContornosDe(e) == ContornosTab[MascaraTab[e.img.pixels]]
\* the pixels of a request's image inside the colour band
NaFaixa(e) == InRangeTab[e.img.pixels]
MaiorArea2(cs) == CHOOSE a \in {ContourArea2(c) : c \in cs} :
                      \A c \in cs : ContourArea2(c) <= a
Cm2 == TamanhoRealCmDecimos * TamanhoRealCmDecimos

\* C1: a finished invocation returns either an image and an area with no
\* failure reason, or a failure reason with neither image nor area.
C1_ExactlyOneSide ==
    \A i \in Invocations :
        Done(i) =>
            \/ ret[i].img # None /\ ret[i].area # None /\ ret[i].erro = None
            \/ ret[i].erro # None /\ ret[i].img = None /\ ret[i].area = None

\* a success whose area comes from a scale of a degenerate marker
C1_Witness ==
    \E i \in Invocations :
        Done(i) /\ ret[i].img = Ref(i) /\ ret[i].erro = None /\ ret[i].area.k = "inf"

\* C2: when the detector reports no vertices (None or an empty array) the
\* invocation ends with the QR failure and no payload, whatever the image
\* holds, and runs no stage after the locator.
C2_AbsentFiducial ==
    \A i \in Invocations :
        (pc[i] # "Idle" /\ Absent(entrada[i].vertices)) =>
            /\ pc[i] \in {"AwaitingFiducial", "Done"}
            /\ \A n \in 1..Len(chamadas[i]) : chamadas[i][n] = "FiducialLocator"
            /\ mascara[i] = None /\ contornos[i] = None /\ maior_contorno[i] = None
            /\ heap[i] = entrada[i].img
            /\ Done(i) => (ret[i].erro = ERRO_QR /\ SemPayload(ret[i]))

\* the detector returned an empty array for an image with pixels in the band
C2_Witness ==
    \E i \in Invocations :
        /\ Done(i)
        /\ entrada[i].vertices = EmptyArr
        /\ NaFaixa(entrada[i]) # {}
        /\ ret[i].erro = ERRO_QR

\* C3: with a fiducial present, an invocation that finds no contour, and in
\* particular one whose image has no pixel in the colour band, ends with the
\* no-leaf failure and no payload.
C3_NoTargetRegion ==
    \A i \in Invocations :
        (Done(i) /\ Present(i)
         /\ (ContornosDe(entrada[i]) = {}
             \/ NaFaixa(entrada[i]) = {}
             \/ Len(contornos[i].v) = 0)) =>
            (ret[i].erro = ERRO_FOLHA /\ SemPayload(ret[i]))

\* a finite scale was established and the image has no pixel in the band
C3_Witness ==
    \E i \in Invocations :
        /\ Done(i) /\ Present(i)
        /\ escala_qr[i].k = "fin"
        /\ NaFaixa(entrada[i]) = {}
        /\ ret[i].erro = ERRO_FOLHA

\* C4: an invocation whose marker has both measured sides of length zero
\* ends in a failure without payload and never holds an infinite scale.
C4_DegenerateRejected ==
    \A i \in Invocations :
        (Done(i) /\ Present(i) /\ Lado2(QuadDe(i)) = 0) =>
            /\ escala_qr[i].k = "fin"
            /\ ret[i].erro # None
            /\ SemPayload(ret[i])

\* C5: on success the area is the pixel area of the selected contour times
\* the square of the scale derived from the same image's fiducial.
C5_AreaFormula ==
    \A i \in Invocations :
        Sucesso(i) =>
            LET e == escala_qr[i]
                a == ret[i].area
            IN /\ e = DetectarEscala(entrada[i].vertices)
               /\ e.k = "fin" =>
                    /\ a.k = "fin"
                    /\ a.num * 2 * 100 * e.pix2 = area_pixels[i].a2 * Cm2 * a.den
               /\ e.k = "inf" => a.k \in {"inf", "nan"}

\* a marker side of 3 pixels and a contour of 9 square pixels: 12.96 cm2
C5_Witness ==
    \E i \in Invocations :
        /\ Sucesso(i)
        /\ escala_qr[i].k = "fin" /\ escala_qr[i].pix2 = 9
        /\ area_pixels[i].a2 = 2 * 9
        /\ ret[i].area.num * 100 = 1296 * ret[i].area.den

\* C6: for a marker with a side of non-zero length the scale is 3.6 over the
\* longer of sides 0-1 and 2-3 as the detector reported them.
C6_ScaleFromCorners ==
    \A i \in Invocations :
        (Present(i) /\ escala_qr[i] # None /\ Lado2(QuadDe(i)) > 0) =>
            /\ escala_qr[i].k = "fin"
            /\ escala_qr[i].pix2 * SubPix * SubPix = Lado2(QuadDe(i))

\* C7: on success the selected contour is one of the image's contours, no
\* contour of the image has a larger area, and the area converted is the
\* area of the selected contour.
C7_LargestContour ==
    \A i \in Invocations :
        Sucesso(i) =>
            /\ maior_contorno[i].px \in ContornosDe(entrada[i])
            /\ \A c \in ContornosDe(entrada[i]) :
                 ContourArea2(c) <= ContourArea2(maior_contorno[i].px)
            /\ area_pixels[i].a2 = ContourArea2(maior_contorno[i].px)
            /\ ret[i].area = AreaCm2(MaiorArea2(ContornosDe(entrada[i])), escala_qr[i])

\* two blobs of different areas, the larger one selected
C7_Witness ==
    \E i \in Invocations :
        /\ Sucesso(i)
        /\ Len(contornos[i].v) = 2
        /\ \E n \in 1..2 : ContourArea2(contornos[i].v[n]) < area_pixels[i].a2

\* C8 as stated: after a success the input image holds the pixels it held
\* before the call and the annotated image is another object.
C8_InputUntouched ==
    \A i \in Invocations :
        Sucesso(i) => (heap[i] = entrada[i].img /\ ret[i].img # Ref(i))

\* C8 amended: the image is unchanged until the annotation and after a
\* failure; a success returns the argument itself, its pixels kept and the
\* outline of the selected contour and the label drawn on it.
C8_AnnotatedInPlace ==
    \A i \in Invocations :
        /\ (pc[i] # "Idle" /\ ~ Sucesso(i)) => heap[i] = entrada[i].img
        /\ Sucesso(i) =>
             /\ ret[i].img = Ref(i)
             /\ heap[i].pixels = entrada[i].img.pixels
             /\ Len(heap[i].anotacoes) = 2
             /\ heap[i].anotacoes[1].op = "drawContours"
             /\ heap[i].anotacoes[1].contorno = maior_contorno[i].px
             /\ heap[i].anotacoes[1].espessura = 2
             /\ heap[i].anotacoes[2].op = "putText"
             /\ heap[i].anotacoes[2].texto \in Texto(ret[i].area)

\* a success: the argument now carries the two drawings
C8_Witness ==
    \E i \in Invocations :
        /\ Sucesso(i)
        /\ heap[i] # entrada[i].img
        /\ ret[i].img = Ref(i)

StageOrder ==
    <<"FiducialLocator", "ScaleEstimator", "RegionSegmenter", "ContourSelector",
      "AreaConverter">>

IsPrefix(a, b) == Len(a) <= Len(b) /\ \A n \in 1..Len(a) : a[n] = b[n]

\* C9: the stages run in the fixed order, each at most once; a failure goes
\* straight to Done and runs no later stage; every started invocation ends
\* in Done and stays there with the result it returned.
C9_StateMachine ==
    /\ [](\A i \in Invocations :
            /\ IsPrefix(chamadas[i], StageOrder)
            /\ (Done(i) /\ ret[i].erro = ERRO_QR) => chamadas[i] = <<"FiducialLocator">>
            /\ (Done(i) /\ ret[i].erro = ERRO_FOLHA) =>
                 chamadas[i] = SubSeq(StageOrder, 1, 4)
            /\ Sucesso(i) => chamadas[i] = StageOrder
            /\ ~ Done(i) => ret[i] = NoRet)
    /\ [][\A i \in Invocations :
            \/ pc'[i] = pc[i] /\ ret'[i] = ret[i] /\ chamadas'[i] = chamadas[i]
            \/ /\ pc[i] = "AwaitingFiducial" /\ pc'[i] = "AwaitingSegmentation"
               /\ escala_qr'[i] # None
            \/ /\ pc[i] = "AwaitingFiducial" /\ pc'[i] = "Done"
               /\ ret'[i].erro = ERRO_QR
            \/ pc[i] = "AwaitingSegmentation" /\ pc'[i] = "AwaitingContour"
            \/ pc[i] = "AwaitingContour" /\ pc'[i] = "Done"]_vars
    /\ <>[](\A i \in Invocations : pc[i] # "Idle" => Done(i))

\* an invocation that ran all five stages
C9_Witness ==
    \E i \in Invocations : Done(i) /\ chamadas[i] = StageOrder

\* what segmentar_folha returns for a request run alone
Solo(e) ==
    LET esc == DetectarEscala(e.vertices)
    IN IF esc = None THEN [area |-> None, erro |-> ERRO_QR]
       ELSE IF ContornosDe(e) = {} THEN [area |-> None, erro |-> ERRO_FOLHA]
       ELSE [area |-> AreaCm2(MaiorArea2(ContornosDe(e)), esc), erro |-> None]

\* C10: however the stages of concurrent invocations interleave, each one
\* returns the area or the failure reason it returns when run alone.
C10_Independent ==
    \A i \in Invocations :
        Done(i) => (ret[i].area = Solo(entrada[i]).area /\ ret[i].erro = Solo(entrada[i]).erro)

\* one invocation has returned an area while another, holding a different
\* scale, is between its stages
C10_Witness ==
    \E i, j \in Invocations :
        /\ i # j
        /\ Sucesso(i)
        /\ pc[j] = "AwaitingContour"
        /\ escala_qr[j] # None /\ escala_qr[j] # escala_qr[i]

====
